---- MODULE Spec2Model ----
(***************************************************************************)
(* Model of the RealLive NWA audio decoder                                 *)
(* (src/dec/real_live/nwa_audio_decoder.cc).                               *)
(*                                                                         *)
(* The input file is a sequence of bytes.  decode_impl parses the 40-byte  *)
(* header, then either copies uncompressed_size bytes (compression_level   *)
(* -1) or validates the header, reads the block offset table and decodes   *)
(* the blocks one after the other, one sample per loop iteration.          *)
(***************************************************************************)
EXTENDS Integers, Sequences, FiniteSets, TLC

VARIABLES
    input,          \* bytes of input_file.stream (immutable during decode)
    pc,             \* position of the decode call
    pos,            \* input_stream read position
    header,         \* NwaHeader
    offsets,        \* std::vector<u32> offsets
    current_block,  \* loop index of read_compressed_samples
    blk,            \* locals of the running decode_block call
    output,         \* bstr output of read_compressed_samples / samples
    audio,          \* res::Audio returned by decode_impl
    err             \* kind of the exception that ended the call

vars == <<input, pc, pos, header, offsets, current_block, blk, output, audio, err>>

----------------------------------------------------------------------------
(* Fixed-width integers.                                                   *)

Pow2(n) == 2 ^ n

\* value & ((1 << n) - 1)
LowBits(v, n) == v % Pow2(n)

\* conversion of an int to s16 (two's complement wrap)
ToS16(v) == LET m == v % 65536 IN IF m >= 32768 THEN m - 65536 ELSE m

\* conversion of an int to u8 / u16 on write
ToU8(v) == v % 256
ToU16(v) == v % 65536

\* A value that wrapped below zero in unsigned arithmetic: larger than any
\* buffer of the model, so that every read or seek of that size fails.
Wrapped == Pow2(30)

\* a - b in unsigned arithmetic
USub(a, b) == IF a >= b THEN a - b ELSE Wrapped

----------------------------------------------------------------------------
(* io::MemoryStream over the buffered file: bounds-checked reads.          *)

NoErr == "none"
UnsupportedFeature == "UnsupportedFeature"  \* err::NotSupportedError
CorruptData == "CorruptData"                \* err::CorruptDataError
SizeMismatch == "SizeMismatch"              \* err::BadDataSizeError
BoundsFailure == "BoundsFailure"            \* err::EofError of a stream

\* can n bytes be read at position p of buf
CanRead(buf, p, n) == p + n <= Len(buf)

\* input_stream.read(n) at position p
ReadBytes(buf, p, n) == [k \in 1..n |-> buf[p + k]]

\* read<u8>
ReadU8(buf, p) == buf[p + 1]

\* read_le<u16>
ReadU16(buf, p) == buf[p + 1] + 256 * buf[p + 2]

\* read_le<u32>
ReadU32(buf, p) ==
    buf[p + 1] + 256 * buf[p + 2] + 65536 * buf[p + 3] + 16777216 * buf[p + 4]

\* static_cast<s32>(read_le<u32>)
ReadS32(buf, p) ==
    buf[p + 1] + 256 * buf[p + 2] + 65536 * buf[p + 3]
        + 16777216 * (IF buf[p + 4] >= 128 THEN buf[p + 4] - 256 ELSE buf[p + 4])

\* write of bytes at position p of a MemoryStream buffer: overwrites, and
\* grows the buffer when the write passes its end
WriteBytes(buf, p, bytes) ==
    LET n == IF p + Len(bytes) > Len(buf) THEN p + Len(bytes) ELSE Len(buf)
    IN  [k \in 1..n |->
            IF k > p /\ k <= p + Len(bytes) THEN bytes[k - p] ELSE buf[k]]

\* bstr(n): n zero bytes
ZeroBytes(n) == [k \in 1..n |-> 0]

----------------------------------------------------------------------------
(* io::LsbBitStream: bits are drawn from each byte low-order bit first.    *)

BitAt(bytes, j) == (bytes[(j \div 8) + 1] \div Pow2(j % 8)) % 2

RECURSIVE BitsValue(_, _, _)
BitsValue(bytes, p, n) ==
    IF n = 0 THEN 0 ELSE BitAt(bytes, p) + 2 * BitsValue(bytes, p + 1, n - 1)

\* can bit_stream.read(n) be served at bit position p
CanReadBits(bytes, p, n) == p + n <= 8 * Len(bytes)

----------------------------------------------------------------------------
(* decode_block: the residual codes.                                       *)

\* Type7Bits with the level test off by one (level <= 3)
Type7BitsOffByOne(level) == IF level <= 3 THEN 8 - level ELSE 8

\* width of the residual field of a type-7 code
Type7Bits(level) == IF level < 3 THEN 8 - level ELSE 8

\* shift of the residual of a type-7 code
Type7Shift(level) == IF level < 3 THEN 9 + level ELSE 9

\* width of the residual field of a code of type 1..6
ResidualBits(level, type) == IF level >= 3 THEN 3 + level ELSE 5 - level

\* shift of the residual of a code of type 1..6
ResidualShift(level, type) == IF level >= 3 THEN 1 + type ELSE 2 + type + level

\* b & mask1, mask1 = 1 << (bits - 1)
SignBit(b, bits) == (b \div Pow2(bits - 1)) % 2

\* b & mask2, mask2 = (1 << (bits - 1)) - 1
Magnitude(b, bits) == LowBits(b, bits - 1)

\* ApplyResidual with a predictor wider than 16 bits (int d[2])
ApplyResidualNoWrap(dv, b, bits, shift) ==
    IF SignBit(b, bits) # 0
    THEN dv - Magnitude(b, bits) * Pow2(shift)
    ELSE dv + Magnitude(b, bits) * Pow2(shift)

\* d[current_channel] -= / += (b & mask2) << shift, stored back into an s16
ApplyResidual(dv, b, bits, shift) ==
    IF SignBit(b, bits) # 0
    THEN ToS16(dv - Magnitude(b, bits) * Pow2(shift))
    ELSE ToS16(dv + Magnitude(b, bits) * Pow2(shift))

\* output_stream.write<u8>(d) / write_le<u16>(d)
SampleBytes(bits_per_sample, dv) ==
    IF bits_per_sample = 8
    THEN <<ToU8(dv)>>
    ELSE <<ToU16(dv) % 256, ToU16(dv) \div 256>>

\* channel index after a sample
NextChannel(channel_count, ch) == IF channel_count = 2 THEN 1 - ch ELSE ch

\* The locals of one loop iteration; -1 stands for "not read / not set".
\* type -1: the iteration consumed a pending run length and read no code.
NoCode == [type |-> -1, flag |-> -1, field |-> -1, ext |-> -1,
           bits |-> -1, shift |-> -1, b |-> -1, reads |-> <<>>]

\* the iteration ends by an exception of bit_stream.read
Exhausted(s, loc) ==
    [s EXCEPT !.ok = FALSE,
              !.trace = Append(@, [loc |-> loc, channel |-> s.current_channel,
                                   d0 |-> s.d[s.current_channel + 1],
                                   d1 |-> s.d[s.current_channel + 1],
                                   pos0 |-> s.bit_pos, pos1 |-> s.bit_pos,
                                   run |-> s.run_length, sample |-> <<>>])]

\* lines 126-132: the sample is written and the channel index advances
Emit(h, s, dnew, posnew, runnew, loc) ==
    LET bytes == SampleBytes(h.bits_per_sample, dnew)
    IN  [s EXCEPT !.d[s.current_channel + 1] = dnew,
                  !.bit_pos = posnew,
                  !.run_length = runnew,
                  !.output_stream = WriteBytes(@, s.out_pos, bytes),
                  !.out_pos = @ + Len(bytes),
                  !.current_channel = NextChannel(h.channel_count, @),
                  !.i = @ + 1,
                  !.trace = Append(@, [loc |-> loc, channel |-> s.current_channel,
                                       d0 |-> s.d[s.current_channel + 1],
                                       d1 |-> dnew,
                                       pos0 |-> s.bit_pos, pos1 |-> posnew,
                                       run |-> runnew, sample |-> bytes])]

\* lines 78-90 and 95-112: a residual of the given width and shift
ResidualUpdate(h, s, type, flag, p, bits, shift, reads) ==
    LET loc0 == [NoCode EXCEPT !.type = type, !.flag = flag, !.bits = bits,
                               !.shift = shift, !.reads = Append(reads, bits)]
    IN  IF ~CanReadBits(s.input, p, bits)
        THEN Exhausted(s, loc0)
        ELSE LET b == BitsValue(s.input, p, bits)
             IN  Emit(h, s, ApplyResidual(s.d[s.current_channel + 1], b, bits, shift),
                      p + bits, 0, [loc0 EXCEPT !.b = b])

\* Type7Code with the reset dropped: a set flag leaves the predictor as it is
Type7CodeNoReset(h, s, p) ==
    LET loc0 == [NoCode EXCEPT !.type = 7, !.reads = <<3, 1>>]
    IN  IF ~CanReadBits(s.input, p, 1)
        THEN Exhausted(s, loc0)
        ELSE LET flag == BitsValue(s.input, p, 1)
             IN  IF flag # 0
                 THEN Emit(h, s, s.d[s.current_channel + 1], p + 1, 0,
                           [loc0 EXCEPT !.flag = flag])
                 ELSE ResidualUpdate(h, s, 7, flag, p + 1,
                                     Type7Bits(h.compression_level),
                                     Type7Shift(h.compression_level), <<3, 1>>)

\* lines 69-92: type 7
Type7Code(h, s, p) ==
    LET loc0 == [NoCode EXCEPT !.type = 7, !.reads = <<3, 1>>]
    IN  IF ~CanReadBits(s.input, p, 1)
        THEN Exhausted(s, loc0)
        ELSE LET flag == BitsValue(s.input, p, 1)
             IN  IF flag # 0
                 THEN Emit(h, s, 0, p + 1, 0, [loc0 EXCEPT !.flag = flag])
                 ELSE ResidualUpdate(h, s, 7, flag, p + 1,
                                     Type7Bits(h.compression_level),
                                     Type7Shift(h.compression_level), <<3, 1>>)

\* RunLengthCode with the 8-bit run length counting the code's own sample
RunLengthCodeOffByOne(h, s, p) ==
    LET dv == s.d[s.current_channel + 1]
        loc1 == [NoCode EXCEPT !.type = 0, !.reads = <<3, 1>>]
    IN  IF ~CanReadBits(s.input, p, 1)
        THEN Exhausted(s, loc1)
        ELSE LET flag == BitsValue(s.input, p, 1)
                 loc2 == [loc1 EXCEPT !.flag = flag, !.reads = <<3, 1, 2>>]
             IN  IF flag # 1
                 THEN Emit(h, s, dv, p + 1, flag, [loc1 EXCEPT !.flag = flag])
                 ELSE IF ~CanReadBits(s.input, p + 1, 2)
                 THEN Exhausted(s, loc2)
                 ELSE LET field == BitsValue(s.input, p + 1, 2)
                          loc3 == [loc2 EXCEPT !.field = field,
                                               !.reads = <<3, 1, 2, 8>>]
                      IN  IF field # 3
                          THEN Emit(h, s, dv, p + 3, field,
                                    [loc2 EXCEPT !.field = field])
                          ELSE IF ~CanReadBits(s.input, p + 3, 8)
                          THEN Exhausted(s, loc3)
                          ELSE LET ext == BitsValue(s.input, p + 3, 8)
                               IN  Emit(h, s, dv, p + 11,
                                        IF ext > 0 THEN ext - 1 ELSE 0,
                                        [loc3 EXCEPT !.ext = ext])

\* RunLengthCode that reads the 2-bit field whatever the flag
RunLengthCodeEager(h, s, p) ==
    LET dv == s.d[s.current_channel + 1]
        loc2 == [NoCode EXCEPT !.type = 0, !.reads = <<3, 1, 2>>]
    IN  IF ~CanReadBits(s.input, p, 3)
        THEN Exhausted(s, loc2)
        ELSE LET flag == BitsValue(s.input, p, 1)
                 field == BitsValue(s.input, p + 1, 2)
                 loc3 == [loc2 EXCEPT !.flag = flag, !.field = field]
             IN  IF flag # 1
                 THEN Emit(h, s, dv, p + 3, 0, loc3)
                 ELSE IF field # 3
                 THEN Emit(h, s, dv, p + 3, field, loc3)
                 ELSE IF ~CanReadBits(s.input, p + 3, 8)
                 THEN Exhausted(s, [loc3 EXCEPT !.reads = <<3, 1, 2, 8>>])
                 ELSE LET ext == BitsValue(s.input, p + 3, 8)
                      IN  Emit(h, s, dv, p + 11, ext,
                               [loc3 EXCEPT !.ext = ext, !.reads = <<3, 1, 2, 8>>])

\* lines 114-123: type 0 with use_run_length
RunLengthCode(h, s, p) ==
    LET dv == s.d[s.current_channel + 1]
        loc1 == [NoCode EXCEPT !.type = 0, !.reads = <<3, 1>>]
    IN  IF ~CanReadBits(s.input, p, 1)
        THEN Exhausted(s, loc1)
        ELSE LET flag == BitsValue(s.input, p, 1)
                 loc2 == [loc1 EXCEPT !.flag = flag, !.reads = <<3, 1, 2>>]
             IN  IF flag # 1
                 THEN Emit(h, s, dv, p + 1, flag, [loc1 EXCEPT !.flag = flag])
                 ELSE IF ~CanReadBits(s.input, p + 1, 2)
                 THEN Exhausted(s, loc2)
                 ELSE LET field == BitsValue(s.input, p + 1, 2)
                          loc3 == [loc2 EXCEPT !.field = field,
                                               !.reads = <<3, 1, 2, 8>>]
                      IN  IF field # 3
                          THEN Emit(h, s, dv, p + 3, field,
                                    [loc2 EXCEPT !.field = field])
                          ELSE IF ~CanReadBits(s.input, p + 3, 8)
                          THEN Exhausted(s, loc3)
                          ELSE LET ext == BitsValue(s.input, p + 3, 8)
                               IN  Emit(h, s, dv, p + 11, ext,
                                        [loc3 EXCEPT !.ext = ext])

\* lines 63-132: one iteration of the sample loop of decode_block
SampleIteration(h, s) ==
    LET dv == s.d[s.current_channel + 1]
    IN  IF s.run_length # 0
        THEN Emit(h, s, dv, s.bit_pos, s.run_length - 1, NoCode)
        ELSE IF ~CanReadBits(s.input, s.bit_pos, 3)
        THEN Exhausted(s, [NoCode EXCEPT !.reads = <<3>>])
        ELSE LET type == BitsValue(s.input, s.bit_pos, 3)
                 p == s.bit_pos + 3
             IN  IF type = 7
                 THEN Type7Code(h, s, p)
                 ELSE IF type > 0
                 THEN ResidualUpdate(h, s, type, -1, p,
                                     ResidualBits(h.compression_level, type),
                                     ResidualShift(h.compression_level, type), <<3>>)
                 ELSE IF h.use_run_length
                 THEN RunLengthCode(h, s, p)
                 ELSE Emit(h, s, dv, p, 0, [NoCode EXCEPT !.type = 0, !.reads = <<3>>])

----------------------------------------------------------------------------
(* decode_block: set-up of a block and the whole block as a function.      *)

NoBlock == [ok |-> TRUE, output_size |-> 0, input_size |-> 0, d |-> <<>>,
            input |-> <<>>, bit_pos |-> 0, current_channel |-> 0,
            run_length |-> 0, i |-> 0, output_stream |-> <<>>, out_pos |-> 0,
            trace |-> <<>>]

\* bytes_per_sample = bits_per_sample >> 3
BytesPerSample(h) == h.bits_per_sample \div 8

\* OutputSize that takes every block for a full one
OutputSizeNoRest(h, cb) ==
    (h.block_size * BytesPerSample(h)) \div BytesPerSample(h)

\* lines 35-38: the number of samples block cb produces
OutputSize(h, cb) ==
    LET current_block_size == IF cb # h.block_count - 1
                              THEN h.block_size * BytesPerSample(h)
                              ELSE h.rest_size * BytesPerSample(h)
    IN  current_block_size \div BytesPerSample(h)

\* lines 39-41: the number of input bytes of block cb
InputSize(buf, offs, cb) ==
    IF cb # Len(offs) - 1
    THEN USub(offs[cb + 2], offs[cb + 1])
    ELSE USub(Len(buf), offs[cb + 1])

\* lines 46-53: the predictor of channel c, read at the head of the block
SeedOf(h, buf, start, c) ==
    IF h.bits_per_sample = 8
    THEN ToS16(ReadU8(buf, start + c))
    ELSE ToS16(ReadU16(buf, start + 2 * c))

\* lines 43-60: the state of decode_block before the first sample, for a block
\* that starts at byte `start` of buf
BlockInit(h, buf, start, input_size, output_size) ==
    LET seed_size == BytesPerSample(h) * h.channel_count
        payload_size == USub(input_size, seed_size)
    IN  IF start > Len(buf) \/ ~CanRead(buf, start, seed_size)
           \/ ~CanRead(buf, start + seed_size, payload_size)
        THEN [NoBlock EXCEPT !.ok = FALSE, !.output_size = output_size,
                             !.input_size = input_size]
        ELSE [NoBlock EXCEPT
                 !.output_size = output_size,
                 !.input_size = input_size,
                 !.d = [c \in 1..h.channel_count |-> SeedOf(h, buf, start, c - 1)],
                 !.input = ReadBytes(buf, start + seed_size, payload_size),
                 !.output_stream = ZeroBytes(output_size)]

\* lines 34-60 for block cb of the file
BlockStart(h, buf, offs, cb) ==
    BlockInit(h, buf, offs[cb + 1], InputSize(buf, offs, cb), OutputSize(h, cb))

\* lines 61-133: the sample loop run to its end (or to its exception)
RECURSIVE RunBlock(_, _)
RunBlock(h, s) ==
    IF ~s.ok \/ s.i >= s.output_size THEN s ELSE RunBlock(h, SampleIteration(h, s))

----------------------------------------------------------------------------
(* decode_impl and read_compressed_samples.                                *)

HeaderSize == 40

NoHeader == [channel_count |-> 0, bits_per_sample |-> 0, sample_rate |-> 0,
             compression_level |-> 0, use_run_length |-> FALSE,
             block_count |-> 0, uncompressed_size |-> 0, compressed_size |-> 0,
             sample_count |-> 0, block_size |-> 0, rest_size |-> 0]

NoAudio == [channel_count |-> 0, bits_per_sample |-> 0, sample_rate |-> 0,
            samples |-> <<>>]

\* lines 196-207
ParseHeader(buf) ==
    [channel_count |-> ReadU16(buf, 0),
     bits_per_sample |-> ReadU16(buf, 2),
     sample_rate |-> ReadU32(buf, 4),
     compression_level |-> ReadS32(buf, 8),
     use_run_length |-> ReadU32(buf, 12) # 0,
     block_count |-> ReadU32(buf, 16),
     uncompressed_size |-> ReadU32(buf, 20),
     compressed_size |-> ReadU32(buf, 24),
     sample_count |-> ReadU32(buf, 28),
     block_size |-> ReadU32(buf, 32),
     rest_size |-> ReadU32(buf, 36)]

\* CheckHeader with the size checks ahead of the two emptiness checks
CheckHeaderReordered(h) ==
    IF h.compression_level < 0 \/ h.compression_level > 5 THEN UnsupportedFeature
    ELSE IF h.channel_count # 1 /\ h.channel_count # 2 THEN UnsupportedFeature
    ELSE IF h.bits_per_sample # 8 /\ h.bits_per_sample # 16 THEN UnsupportedFeature
    ELSE IF h.uncompressed_size # (h.sample_count * h.bits_per_sample) \div 8
    THEN SizeMismatch
    ELSE IF h.block_count = 0 THEN CorruptData
    ELSE IF h.compressed_size = 0 THEN CorruptData
    ELSE IF h.sample_count # (h.block_count - 1) * h.block_size + h.rest_size
    THEN CorruptData
    ELSE NoErr

\* lines 141-166: the exception of the first failing check, or NoErr
CheckHeader(h) ==
    IF h.compression_level < 0 \/ h.compression_level > 5 THEN UnsupportedFeature
    ELSE IF h.channel_count # 1 /\ h.channel_count # 2 THEN UnsupportedFeature
    ELSE IF h.bits_per_sample # 8 /\ h.bits_per_sample # 16 THEN UnsupportedFeature
    ELSE IF h.block_count = 0 THEN CorruptData
    ELSE IF h.compressed_size = 0 THEN CorruptData
    ELSE IF h.uncompressed_size # (h.sample_count * h.bits_per_sample) \div 8
    THEN SizeMismatch
    ELSE IF h.sample_count # (h.block_count - 1) * h.block_size + h.rest_size
    THEN CorruptData
    ELSE NoErr

\* lines 209-211: which reader decode_impl calls
IsStored(h) == h.compression_level = -1

\* the exception leaves decode_impl: nothing is returned
Throw(kind) ==
    /\ pc' = "failed"
    /\ err' = kind

\* lines 194-207: the file is buffered and the header read
ReadHeader ==
    /\ pc = "parse"
    /\ IF ~CanRead(input, 0, HeaderSize)
       THEN /\ Throw(BoundsFailure)
            /\ UNCHANGED <<pos, header>>
       ELSE /\ header' = ParseHeader(input)
            /\ pos' = HeaderSize
            /\ pc' = "dispatch"
            /\ err' = err
    /\ UNCHANGED <<input, offsets, current_block, blk, output, audio>>

\* ReadUncompressedSamples that runs the header checks of the compressed path
ReadUncompressedSamplesChecked ==
    /\ pc = "dispatch"
    /\ IsStored(header)
    /\ IF CheckHeader([header EXCEPT !.compression_level = 0]) # NoErr
       THEN /\ Throw(CheckHeader([header EXCEPT !.compression_level = 0]))
            /\ UNCHANGED <<pos, output>>
       ELSE IF ~CanRead(input, pos, header.uncompressed_size)
       THEN /\ Throw(BoundsFailure)
            /\ UNCHANGED <<pos, output>>
       ELSE /\ output' = ReadBytes(input, pos, header.uncompressed_size)
            /\ pos' = pos + header.uncompressed_size
            /\ pc' = "finish"
            /\ err' = err
    /\ UNCHANGED <<input, header, offsets, current_block, blk, audio>>

\* lines 179-183: read_uncompressed_samples
ReadUncompressedSamples ==
    /\ pc = "dispatch"
    /\ IsStored(header)
    /\ IF ~CanRead(input, pos, header.uncompressed_size)
       THEN /\ Throw(BoundsFailure)
            /\ UNCHANGED <<pos, output>>
       ELSE /\ output' = ReadBytes(input, pos, header.uncompressed_size)
            /\ pos' = pos + header.uncompressed_size
            /\ pc' = "finish"
            /\ err' = err
    /\ UNCHANGED <<input, header, offsets, current_block, blk, audio>>

\* lines 141-166: the checks of read_compressed_samples
ValidateHeader ==
    /\ pc = "dispatch"
    /\ ~IsStored(header)
    /\ IF CheckHeader(header) # NoErr
       THEN Throw(CheckHeader(header))
       ELSE /\ pc' = "offsets"
            /\ err' = err
    /\ UNCHANGED <<input, pos, header, offsets, current_block, blk, output, audio>>

\* lines 168-171: the reserved field is skipped and the offset table read
ReadOffsets ==
    /\ pc = "offsets"
    /\ IF ~CanRead(input, pos, 4 + 4 * header.block_count)
       THEN /\ Throw(BoundsFailure)
            /\ UNCHANGED <<pos, offsets>>
       ELSE /\ offsets' = [k \in 1..header.block_count |->
                              ReadU32(input, pos + 4 + 4 * (k - 1))]
            /\ pos' = pos + 4 + 4 * header.block_count
            /\ pc' = "block"
            /\ err' = err
    /\ UNCHANGED <<input, header, current_block, blk, output, audio>>

\* BeginBlock that skips a block whose bytes cannot be read and goes on
BeginBlockSkipping ==
    /\ pc = "block"
    /\ blk' = BlockStart(header, input, offsets, current_block)
    /\ IF ~blk'.ok
       THEN /\ pos' = pos
            /\ current_block' = current_block + 1
            /\ pc' = IF current_block + 1 < header.block_count
                     THEN "block" ELSE "finish"
            /\ err' = err
       ELSE /\ pos' = offsets[current_block + 1] + blk'.input_size
            /\ current_block' = current_block
            /\ pc' = "sample"
            /\ err' = err
    /\ UNCHANGED <<input, header, offsets, output, audio>>

\* BeginBlock that keeps the run length and the channel index of the block before
BeginBlockCarry ==
    /\ pc = "block"
    /\ blk' = LET b == BlockStart(header, input, offsets, current_block)
              IN  IF b.ok /\ current_block > 0
                  THEN [b EXCEPT !.run_length = blk.run_length,
                                 !.current_channel = blk.current_channel]
                  ELSE b
    /\ IF ~blk'.ok
       THEN /\ Throw(BoundsFailure)
            /\ pos' = pos
       ELSE /\ pos' = offsets[current_block + 1] + blk'.input_size
            /\ pc' = "sample"
            /\ err' = err
    /\ UNCHANGED <<input, header, offsets, current_block, output, audio>>

\* lines 34-60: decode_block is entered for block current_block
BeginBlock ==
    /\ pc = "block"
    /\ blk' = BlockStart(header, input, offsets, current_block)
    /\ IF ~blk'.ok
       THEN /\ Throw(BoundsFailure)
            /\ pos' = pos
       ELSE /\ pos' = offsets[current_block + 1] + blk'.input_size
            /\ pc' = "sample"
            /\ err' = err
    /\ UNCHANGED <<input, header, offsets, current_block, output, audio>>

\* lines 61-133: one iteration of the sample loop
DecodeSample ==
    /\ pc = "sample"
    /\ blk.i < blk.output_size
    /\ blk' = SampleIteration(header, blk)
    /\ IF ~blk'.ok
       THEN Throw(BoundsFailure)
       ELSE /\ pc' = pc
            /\ err' = err
    /\ UNCHANGED <<input, pos, header, offsets, current_block, output, audio>>

\* lines 135 and 174-175: the block's bytes are appended, the next block follows
EndBlock ==
    /\ pc = "sample"
    /\ blk.i >= blk.output_size
    /\ output' = output \o blk.output_stream
    /\ current_block' = current_block + 1
    /\ pc' = IF current_block + 1 < header.block_count THEN "block" ELSE "finish"
    /\ UNCHANGED <<input, pos, header, offsets, blk, audio, err>>

\* lines 213-218: the PCM resource is returned
ReturnAudio ==
    /\ pc = "finish"
    /\ audio' = [channel_count |-> header.channel_count,
                 bits_per_sample |-> header.bits_per_sample,
                 sample_rate |-> header.sample_rate,
                 samples |-> output]
    /\ pc' = "done"
    /\ UNCHANGED <<input, pos, header, offsets, current_block, blk, output, err>>

Next ==
    \/ ReadHeader
    \/ ReadUncompressedSamples
    \/ ValidateHeader
    \/ ReadOffsets
    \/ BeginBlock
    \/ DecodeSample
    \/ EndBlock
    \/ ReturnAudio

\* the state of a decode call on the file `file`
Start(file) ==
    /\ input = file
    /\ pc = "parse"
    /\ pos = 0
    /\ header = NoHeader
    /\ offsets = <<>>
    /\ current_block = 0
    /\ blk = NoBlock
    /\ output = <<>>
    /\ audio = NoAudio
    /\ err = NoErr

----------------------------------------------------------------------------
(* The input files of the model: NWA files laid out as decode_impl reads   *)
(* them (header, reserved field, offset table, blocks).                    *)

MaxTokens == 2      \* codes per block of a single-block file
MaxBlocks == 2      \* blocks of a multi-block file

U16Bytes(v) == <<v % 256, (v \div 256) % 256>>

U32Bytes(v) ==
    <<v % 256, (v \div 256) % 256, (v \div 65536) % 256, (v \div 16777216) % 256>>

HeaderBytes(h) ==
    U16Bytes(h.channel_count) \o U16Bytes(h.bits_per_sample)
        \o U32Bytes(h.sample_rate) \o U32Bytes(h.compression_level)
        \o U32Bytes(IF h.use_run_length THEN 1 ELSE 0)
        \o U32Bytes(h.block_count) \o U32Bytes(h.uncompressed_size)
        \o U32Bytes(h.compressed_size) \o U32Bytes(h.sample_count)
        \o U32Bytes(h.block_size) \o U32Bytes(h.rest_size)

RECURSIVE Flatten(_)
Flatten(seqs) == IF seqs = <<>> THEN <<>> ELSE Head(seqs) \o Flatten(Tail(seqs))

\* the bits of a field of width w, low-order bit first
FieldBits(f) == [k \in 1..f[2] |-> (f[1] \div Pow2(k - 1)) % 2]

\* fields packed into bytes, low-order bit first, zero padded
PackFields(fields) ==
    LET bits == Flatten([k \in 1..Len(fields) |-> FieldBits(fields[k])])
        n == (Len(bits) + 7) \div 8
        bit(j) == IF j <= Len(bits) THEN bits[j] ELSE 0
    IN  [k \in 1..n |->
            bit(8 * k - 7) + 2 * bit(8 * k - 6) + 4 * bit(8 * k - 5)
                + 8 * bit(8 * k - 4) + 16 * bit(8 * k - 3) + 32 * bit(8 * k - 2)
                + 64 * bit(8 * k - 1) + 128 * bit(8 * k)]

\* residual field widths of the format, by compression level 0..5
Width7(level) == <<8, 7, 6, 8, 8, 8>>[level + 1]
WidthN(level) == <<5, 4, 3, 6, 7, 8>>[level + 1]

\* codes: sequences of <<value, width>> fields; samples: the samples the code
\* stands for when nothing cuts it short
CodeReset == [fields |-> << <<7, 3>>, <<1, 1>> >>, samples |-> 1]
CodeType7(level, b) ==
    [fields |-> << <<7, 3>>, <<0, 1>>, <<b, Width7(level)>> >>, samples |-> 1]
CodeResidual(level, type, b) ==
    [fields |-> << <<type, 3>>, <<b, WidthN(level)>> >>, samples |-> 1]
CodeZero(rle) ==
    [fields |-> IF rle THEN << <<0, 3>>, <<0, 1>> >> ELSE << <<0, 3>> >>,
     samples |-> 1]
CodeRun(n) == [fields |-> << <<0, 3>>, <<1, 1>>, <<n, 2>> >>, samples |-> 1 + n]
CodeRunExt(n) ==
    [fields |-> << <<0, 3>>, <<1, 1>>, <<3, 2>>, <<n, 8>> >>, samples |-> 1 + n]

MaxPositive(w) == Pow2(w - 1) - 1
MinusOne(w) == Pow2(w - 1) + 1

\* the codes blocks are built from
Codes(level, rle) ==
    {CodeReset, CodeType7(level, MaxPositive(Width7(level))),
     CodeResidual(level, 1, MinusOne(WidthN(level))),
     CodeResidual(level, 6, MaxPositive(WidthN(level))), CodeZero(rle)}
    \cup (IF rle THEN {CodeRunExt(3)} ELSE {})

\* every code type once, with the extreme residuals
AllCodes(level, rle) ==
    Codes(level, rle)
    \cup {CodeResidual(level, t, b) :
            t \in 1..6, b \in {MaxPositive(WidthN(level)), Pow2(WidthN(level)) - 1}}
    \cup {CodeType7(level, b) : b \in {MinusOne(Width7(level)), Pow2(Width7(level)) - 1}}
    \cup (IF rle THEN {CodeRun(1), CodeRun(2), CodeRunExt(0)} ELSE {})

SeqsUpTo(S, n) == UNION {[1..k -> S] : k \in 1..n}

RECURSIVE SumSamples(_)
SumSamples(codes) ==
    IF codes = <<>> THEN 0 ELSE Head(codes).samples + SumSamples(Tail(codes))

\* the bytes of a block: one seed per channel, then the packed codes
BlockBytes(channel_count, bits_per_sample, seeds, codes) ==
    Flatten([c \in 1..channel_count |->
                IF bits_per_sample = 8 THEN <<seeds[c] % 256>> ELSE U16Bytes(seeds[c])])
        \o PackFields(Flatten([k \in 1..Len(codes) |-> codes[k].fields]))

\* offsets of blocks laid out one after the other from byte `first`
RECURSIVE Layout(_, _)
Layout(blocks, first) ==
    IF blocks = <<>> THEN <<>>
    ELSE <<first>> \o Layout(Tail(blocks), first + Len(Head(blocks)))

\* a file: header, reserved field, offset table, blocks
FileBytes(h, offs, blocks) ==
    HeaderBytes(h) \o <<0, 0, 0, 0>>
        \o Flatten([k \in 1..Len(offs) |-> U32Bytes(offs[k])])
        \o Flatten(blocks)

\* a header consistent with the given block sizes
ValidHeader(cc, bps, level, rle, block_count, block_size, rest_size) ==
    [channel_count |-> cc, bits_per_sample |-> bps, sample_rate |-> 44100,
     compression_level |-> level, use_run_length |-> rle,
     block_count |-> block_count,
     uncompressed_size |->
         ((block_count - 1) * block_size + rest_size) * (bps \div 8),
     compressed_size |-> 1,
     sample_count |-> (block_count - 1) * block_size + rest_size,
     block_size |-> block_size, rest_size |-> rest_size]

\* a single-block file whose block asks for as many samples as its codes
\* stand for, plus `extra`
SingleBlockFile(cc, bps, level, rle, seed, codes, extra) ==
    LET block == BlockBytes(cc, bps, <<seed, 7>>, codes)
        h == ValidHeader(cc, bps, level, rle, 1, SumSamples(codes) + extra,
                         SumSamples(codes) + extra)
    IN  FileBytes(h, <<HeaderSize + 8>>, <<block>>)

\* decode starts on a single-block file of up to MaxTokens codes, for every
\* channel count, sample width, level and mode
CodeInputs ==
    \E level \in 0..5, rle \in BOOLEAN, cc \in {1, 2}, bps \in {8, 16}, extra \in {0, 1} :
        \E codes \in SeqsUpTo(Codes(level, rle), MaxTokens) :
            Start(SingleBlockFile(cc, bps, level, rle, 100, codes, extra))

\* one code of every type, with seeds on both sides of the s16 range
SingleCodeInputs ==
    \E level \in 0..5, rle \in BOOLEAN, cc \in {1, 2}, bps \in {8, 16},
       seed \in {100, 200, 40000, 65535} :
        \E code \in AllCodes(level, rle) :
            Start(SingleBlockFile(cc, bps, level, rle, seed, <<code>>, 0))

\* a residual, a run length of 3 by the 8-bit extension, then one more code
RunInputs ==
    \E level \in 0..5, cc \in {1, 2}, bps \in {8, 16} :
        \E first \in AllCodes(level, TRUE) \ {CodeZero(TRUE)}, last \in Codes(level, TRUE) :
            Start(SingleBlockFile(cc, bps, level, TRUE, 100,
                                  <<first, CodeRunExt(3), last>>, 0))

\* multi-block files: one code per block; the offset table is the layout of
\* the blocks ("ok"), or has a stray byte after every block ("gap"), or lists
\* the blocks in descending order ("swap"), or ends past the file ("beyond")
BlockCodes(level) ==
    {CodeReset, CodeResidual(level, 1, MinusOne(WidthN(level))), CodeRunExt(3),
     CodeZero(TRUE)}

MultiBlockFile(cc, bps, level, block_size, rest_size, codes, variant) ==
    LET n == Len(codes)
        h == ValidHeader(cc, bps, level, TRUE, n, block_size, rest_size)
        first == HeaderSize + 4 + 4 * n
        blocks == [k \in 1..n |->
                      BlockBytes(cc, bps, <<100 + k, 7 + k>>, <<codes[k]>>)
                          \o (IF variant = "gap" THEN <<0>> ELSE <<>>)]
        stored == IF variant = "swap" THEN [k \in 1..n |-> blocks[n + 1 - k]]
                  ELSE blocks
        placed == Layout(stored, first)
        offs == IF variant = "swap" THEN [k \in 1..n |-> placed[n + 1 - k]]
                ELSE IF variant = "beyond"
                THEN [placed EXCEPT ![n] = first + Len(Flatten(blocks)) + 1]
                ELSE placed
    IN  FileBytes(h, offs, stored)

BlockInputs ==
    \E level \in {0, 3}, n \in 2..MaxBlocks, cc \in {1, 2}, bps \in {8, 16},
       block_size \in {1, 2}, rest_size \in {1, 2},
       variant \in {"ok", "gap", "swap", "beyond"} :
        \E codes \in [1..n -> BlockCodes(level)] :
            Start(MultiBlockFile(cc, bps, level, block_size, rest_size, codes, variant))

\* files with arbitrary header fields, followed by nothing, by one byte, or by
\* a reserved field, an offset table and block_count blocks of six bytes
HeaderPayload(block_count, kind) ==
    IF kind = "none" THEN <<>>
    ELSE IF kind = "short" THEN <<1>>
    ELSE <<0, 0, 0, 0>>
         \o Flatten([k \in 1..block_count |->
                        U32Bytes(HeaderSize + 4 + 4 * block_count + 6 * (k - 1))])
         \o Flatten([k \in 1..block_count |-> <<100, 0, 7, 0, 15, 0>>])

HeaderFile(h, kind) == HeaderBytes(h) \o HeaderPayload(h.block_count, kind)

HeaderInputs ==
    \E level \in {-2, -1, 0, 5, 6}, cc \in {1, 2, 3}, bps \in {8, 12, 16},
       bc \in 0..MaxBlocks, us \in {0, 2, 4}, cs \in {0, 1}, sc \in {1, 2, 4},
       bs \in {1, 2}, rs \in {1, 2} :
        \E kind \in IF level = -1 THEN {"none", "short", "full"} ELSE {"none", "full"} :
            Start(HeaderFile([channel_count |-> cc, bits_per_sample |-> bps,
                              sample_rate |-> 22050, compression_level |-> level,
                              use_run_length |-> FALSE, block_count |-> bc,
                              uncompressed_size |-> us, compressed_size |-> cs,
                              sample_count |-> sc, block_size |-> bs,
                              rest_size |-> rs], kind))

\* files that end inside the header
ShortInputs == \E file \in {<<>>, [k \in 1..(HeaderSize - 1) |-> 0]} : Start(file)

\* decode is called on one of the input files
Init ==
    \/ CodeInputs
    \/ SingleCodeInputs
    \/ RunInputs
    \/ BlockInputs
    \/ HeaderInputs
    \/ ShortInputs

Spec == Init /\ [][Next]_vars

----------------------------------------------------------------------------
(* Properties.                                                             *)

Terminated == pc \in {"done", "failed"}

\* the header fields are those of the file (the header has been read)
HeaderRead == pc # "parse" /\ (pc = "failed" => header # NoHeader)

ValidationErrors == {UnsupportedFeature, CorruptData, SizeMismatch}

\* the iterations of the running block, in order
Trace == blk.trace

\* entry k read a code (or tried to); it did not consume a pending run length
ReadsCode(k) == Trace[k].loc.reads # <<>>

\* C1 (as stated): every file whose header has compression_level -1 decodes
\* successfully, no header check is run, and the samples returned are the
\* uncompressed_size bytes that follow the 40-byte header.
C1_Original ==
    (Terminated /\ HeaderRead /\ header.compression_level = -1)
        => /\ pc = "done"
           /\ err = NoErr
           /\ audio.samples = ReadBytes(input, HeaderSize, header.uncompressed_size)

\* C1 (amended): with compression_level -1 no header check is run and nothing
\* but the header and uncompressed_size bytes is read; when the file holds
\* uncompressed_size bytes after the 40-byte header decode returns exactly
\* those bytes, and when it holds fewer decode fails with a read failure.
C1_StoredPassthrough ==
    (HeaderRead /\ header.compression_level = -1)
        => /\ err \notin ValidationErrors
           /\ pc \in {"dispatch", "finish", "done", "failed"}
           /\ offsets = <<>> /\ blk = NoBlock
           /\ Terminated =>
                IF Len(input) >= HeaderSize + header.uncompressed_size
                THEN /\ pc = "done"
                     /\ err = NoErr
                     /\ audio.samples
                            = ReadBytes(input, HeaderSize, header.uncompressed_size)
                     /\ audio.channel_count = header.channel_count
                     /\ audio.bits_per_sample = header.bits_per_sample
                ELSE /\ pc = "failed"
                     /\ err = BoundsFailure
                     /\ audio = NoAudio

\* a stored file whose header breaks checks 2, 3, 4 and 6 is returned verbatim
C1_Witness ==
    /\ pc = "done"
    /\ header.compression_level = -1
    /\ header.channel_count = 3
    /\ header.bits_per_sample = 12
    /\ header.block_count = 0
    /\ header.uncompressed_size = 4
    /\ header.sample_count = 1
    /\ audio.samples = <<0, 0, 0, 0>>

\* C2: when a file with compression_level 0..5 decodes, the sample buffer
\* returned is uncompressed_size bytes long.
C2_OutputLength ==
    (pc = "done" /\ header.compression_level \in 0..5)
        => Len(audio.samples) = header.uncompressed_size

\* a stereo 16-bit file of several blocks, the last one shorter, has decoded
C2_Witness ==
    /\ pc = "done"
    /\ header.compression_level \in 0..5
    /\ header.block_count >= 2
    /\ header.channel_count = 2
    /\ header.bits_per_sample = 16
    /\ header.rest_size < header.block_size
    /\ Len(audio.samples) > 0

\* the checks of the claim, by their number
Violates(h, n) ==
    CASE n = 1 -> h.compression_level \notin 0..5
      [] n = 2 -> h.channel_count \notin {1, 2}
      [] n = 3 -> h.bits_per_sample \notin {8, 16}
      [] n = 4 -> h.block_count = 0
      [] n = 5 -> h.compressed_size = 0
      [] n = 6 -> h.uncompressed_size # (h.sample_count * h.bits_per_sample) \div 8
      [] n = 7 -> h.sample_count # (h.block_count - 1) * h.block_size + h.rest_size

KindOfCheck ==
    <<UnsupportedFeature, UnsupportedFeature, UnsupportedFeature, CorruptData,
      CorruptData, SizeMismatch, CorruptData>>

\* the error of the earliest violated check, NoErr when none is violated
FirstViolation(h) ==
    LET bad == {n \in 1..7 : Violates(h, n)}
    IN  IF bad = {} THEN NoErr
        ELSE KindOfCheck[CHOOSE n \in bad : \A m \in bad : n <= m]

\* C3: with compression_level # -1 decode fails with the error of the first
\* violated check in the order 1..7, and with no validation error when no
\* check is violated.
C3_FirstViolatedCheck ==
    (HeaderRead /\ pc # "dispatch" /\ header.compression_level # -1)
        => IF FirstViolation(header) # NoErr
           THEN pc = "failed" /\ err = FirstViolation(header)
           ELSE err \notin ValidationErrors

\* a header that violates checks 4, 5 and 6 at once reports check 4
C3_Witness ==
    /\ pc = "failed"
    /\ err = CorruptData
    /\ header.compression_level = 5
    /\ header.channel_count = 2
    /\ header.bits_per_sample = 16
    /\ header.block_count = 0
    /\ header.compressed_size = 0
    /\ Violates(header, 6)
    /\ Violates(header, 7)

\* C4: a failed decode returns nothing; a validation failure is raised with
\* the stream still at the end of the header, no offset read and no block
\* decoded; a read failure in a block ends the whole call, no later block
\* is decoded, and a call that returns samples met no read failure in any
\* block.
C4_NoPartialResult ==
    /\ (pc \in {"finish", "done"} /\ header.compression_level # -1)
         => \A k \in 0..(header.block_count - 1) :
                RunBlock(header, BlockStart(header, input, offsets, k)).ok
    /\ pc = "failed"
        => /\ audio = NoAudio
           /\ err # NoErr
           /\ ~ENABLED Next
           /\ err \in ValidationErrors
                => /\ pos = HeaderSize
                   /\ offsets = <<>>
                   /\ blk = NoBlock
                   /\ current_block = 0
                   /\ output = <<>>

\* a read failure in a later block, after an earlier block has been decoded
C4_Witness ==
    /\ pc = "failed"
    /\ err = BoundsFailure
    /\ current_block >= 1
    /\ current_block < header.block_count
    /\ output # <<>>
    /\ blk.i >= 1

\* the bytes block k owns: from its offset to the next offset (to the end of
\* the file for the last block)
BlockSpan(k) == ReadBytes(input, offsets[k + 1], InputSize(input, offsets, k))

\* the samples block k is declared to hold
DeclaredSamples(k) ==
    IF k = header.block_count - 1 THEN header.rest_size ELSE header.block_size

RECURSIVE RunSteps(_, _, _)
RunSteps(h, s, n) ==
    IF n = 0 \/ ~s.ok THEN s ELSE RunSteps(h, SampleIteration(h, s), n - 1)

\* block k decoded on its own, from the header and its span alone, up to its
\* n-th sample
IsolatedSteps(k, n) ==
    RunSteps(header,
             BlockInit(header, BlockSpan(k), 0, Len(BlockSpan(k)), DeclaredSamples(k)),
             n)

IsolatedBlock(k) == IsolatedSteps(k, DeclaredSamples(k))

\* the isolated block outputs of blocks 0..n-1, in ascending index
RECURSIVE IsolatedOutput(_)
IsolatedOutput(n) ==
    IF n = 0 THEN <<>>
    ELSE IsolatedOutput(n - 1) \o IsolatedBlock(n - 1).output_stream

\* C5: every block starts from its own seeds with run_length 0 and channel 0
\* and decodes as it would alone, from the header and its own byte span; the
\* output is the block outputs in ascending index, block_size (rest_size for
\* the last block) samples each.
C5_BlocksIndependent ==
    (pc \in {"block", "sample", "finish", "done"} /\ header.compression_level # -1)
        => /\ output = IsolatedOutput(current_block)
           /\ \A k \in 0..(current_block - 1) :
                /\ IsolatedBlock(k).ok
                /\ Len(IsolatedBlock(k).output_stream)
                       = DeclaredSamples(k) * (header.bits_per_sample \div 8)
           /\ pc = "sample"
                => /\ blk = IsolatedSteps(current_block, blk.i)
                   /\ blk.i = 0
                        => /\ blk.run_length = 0
                           /\ blk.current_channel = 0
                           /\ \A c \in 1..header.channel_count :
                                blk.d[c] = SeedOf(header, BlockSpan(current_block), 0, c - 1)
           /\ pc = "done"
                => /\ current_block = header.block_count
                   /\ audio.samples = IsolatedOutput(header.block_count)

\* a stereo file has decoded whose first block ended with a run length pending
\* and the channel index at 1
C5_Witness ==
    /\ pc = "done"
    /\ header.compression_level # -1
    /\ header.block_count >= 2
    /\ header.channel_count = 2
    /\ header.block_size # header.rest_size
    /\ IsolatedBlock(0).run_length > 0
    /\ IsolatedBlock(0).current_channel = 1

\* in a mono run-length stream, iteration k made a residual update and
\* iteration k + 1 read type 0, flag 1, field 3, extension 3
RunOfThreeAt(k) ==
    /\ header.channel_count = 1
    /\ header.use_run_length
    /\ k + 1 <= Len(Trace)
    /\ Trace[k].loc.type \in 1..7
    /\ Trace[k].sample # <<>>
    /\ Trace[k + 1].loc.type = 0
    /\ Trace[k + 1].loc.flag = 1
    /\ Trace[k + 1].loc.field = 3
    /\ Trace[k + 1].loc.ext = 3

\* C6 (as stated): after the updated sample the same value is emitted for 3
\* more samples, and the next type code is read at the sample after those.
C6_Original ==
    \A k \in 1..Len(Trace) :
        RunOfThreeAt(k)
            => /\ \A j \in (k + 1)..(k + 3) :
                    j <= Len(Trace) => Trace[j].sample = Trace[k].sample
               /\ k + 4 <= Len(Trace) => ReadsCode(k + 4)

\* C6 (amended): after the updated sample the same value is emitted for 4
\* more samples (as far as the block goes): one at the iteration that reads
\* the type-0 code and 3 from the run length, which read no bits; the next
\* type code is read at the fifth sample after the updated one.
C6_RunOfThree ==
    \A k \in 1..Len(Trace) :
        RunOfThreeAt(k)
            => /\ Trace[k + 1].run = 3
               /\ \A j \in (k + 1)..(k + 4) :
                    j <= Len(Trace)
                        => /\ Trace[j].sample = Trace[k].sample
                           /\ Trace[j].d1 = Trace[k].d1
                           /\ j >= k + 2
                                => /\ ~ReadsCode(j)
                                   /\ Trace[j].pos1 = Trace[k + 1].pos1
                                   /\ Trace[j].run = k + 4 - j
               /\ k + 5 <= Len(Trace)
                    => /\ ReadsCode(k + 5)
                       /\ Trace[k + 5].pos0 = Trace[k + 1].pos1

\* a residual changed the predictor, the run of 3 followed, and the code
\* after the run has been read
C6_Witness ==
    \E k \in 1..Len(Trace) :
        /\ RunOfThreeAt(k)
        /\ Trace[k].d1 # Trace[k].d0
        /\ k + 5 <= Len(Trace)
        /\ Trace[k + 5].loc.type >= 0
        /\ Trace[k + 5].sample # <<>>

\* the single-block, mono, 16-bit, level-0 file with seed 100 and the code
\* type 7, flag 1
ResetScenario ==
    {SingleBlockFile(1, 16, 0, rle, 100, <<CodeReset>>, 0) : rle \in BOOLEAN}

\* C7: a type code 7 followed by a set flag makes the predictor of the
\* current channel 0 and the sample emitted 0; the scenario file decodes to
\* one 16-bit sample of value 0.
C7_ZeroReset ==
    /\ \A k \in 1..Len(Trace) :
         (Trace[k].loc.type = 7 /\ Trace[k].loc.flag = 1)
            => /\ Trace[k].d1 = 0
               /\ Trace[k].sample = ZeroBytes(header.bits_per_sample \div 8)
               /\ (k = Len(Trace) /\ pc = "sample")
                    => blk.d[Trace[k].channel + 1] = 0
    /\ input \in ResetScenario
         => /\ pc # "failed"
            /\ pc = "done" => audio.samples = <<0, 0>>

\* the scenario file has decoded, from the seed 100
C7_Witness ==
    /\ pc = "done"
    /\ input \in ResetScenario
    /\ Len(Trace) = 1
    /\ Trace[1].loc.type = 7
    /\ Trace[1].loc.flag = 1
    /\ Trace[1].d0 = 100
    /\ audio.samples = <<0, 0>>

\* iteration k read a type-0 code and a run-length flag of 0, in run-length mode
ZeroFlagAt(k) ==
    /\ header.use_run_length
    /\ Trace[k].loc.type = 0
    /\ Trace[k].loc.flag = 0

\* C8 (as stated): such an iteration leaves run_length 0, emits the
\* unchanged predictor and advances the bit cursor by 3 bits.
C8_Original ==
    \A k \in 1..Len(Trace) :
        ZeroFlagAt(k)
            => /\ Trace[k].run = 0
               /\ Trace[k].d1 = Trace[k].d0
               /\ Trace[k].pos1 = Trace[k].pos0 + 3

\* C8 (amended): such an iteration leaves run_length 0, emits the unchanged
\* predictor and advances the bit cursor by 4 bits: the 3 bits of the type
\* code and the flag bit.
C8_ZeroFlag ==
    \A k \in 1..Len(Trace) :
        ZeroFlagAt(k)
            => /\ Trace[k].run = 0
               /\ Trace[k].d1 = Trace[k].d0
               /\ Trace[k].sample = SampleBytes(header.bits_per_sample, Trace[k].d0)
               /\ Trace[k].loc.reads = <<3, 1>>
               /\ Trace[k].pos1 = Trace[k].pos0 + 4

\* a type-0 code with flag 0 has been decoded after another code
C8_Witness ==
    \E k \in 2..Len(Trace) :
        /\ ZeroFlagAt(k)
        /\ Trace[k].sample # <<>>
        /\ Trace[k].pos0 > 0
        /\ Trace[k].d0 # 100

\* the residual width and shift the claim gives for a level and a type
ClaimedBits(level, type) ==
    IF type = 7 THEN (IF level < 3 THEN 8 - level ELSE 8)
    ELSE (IF level >= 3 THEN 3 + level ELSE 5 - level)

ClaimedShift(level, type) ==
    IF type = 7 THEN (IF level < 3 THEN 9 + level ELSE 9)
    ELSE (IF level >= 3 THEN 1 + type ELSE 2 + type + level)

\* C9: every residual has the width and shift the claim gives for its level
\* and type; every read of the bit stream asks for 1..8 bits, every residual
\* is at least 3 bits wide and every shift is 2..11.
C9_WidthsAndShifts ==
    \A k \in 1..Len(Trace) :
        /\ \A r \in 1..Len(Trace[k].loc.reads) :
             Trace[k].loc.reads[r] >= 1 /\ Trace[k].loc.reads[r] <= 8
        /\ Trace[k].loc.type \in 1..7 /\ Trace[k].loc.flag # 1
             => /\ Trace[k].loc.bits
                    = ClaimedBits(header.compression_level, Trace[k].loc.type)
                /\ Trace[k].loc.shift
                    = ClaimedShift(header.compression_level, Trace[k].loc.type)
                /\ Trace[k].loc.bits >= 3
                /\ Trace[k].loc.shift >= 2 /\ Trace[k].loc.shift <= 11
        /\ header.compression_level \in 0..5

\* a type-7 residual at level 2: the narrowest type-7 field, the largest shift
C9_Witness ==
    \E k \in 1..Len(Trace) :
        /\ header.compression_level = 2
        /\ Trace[k].loc.type = 7
        /\ Trace[k].loc.bits = 6
        /\ Trace[k].loc.shift = 11
        /\ Trace[k].loc.b >= 0

\* v reduced modulo 2^16 into -32768..32767
Wrap16(v) == ((v + 32768) % 65536) - 32768

\* the predictor before reduction, after the residual of iteration k
Unreduced(k) ==
    LET e == Trace[k]
        magnitude == e.loc.b % (2 ^ (e.loc.bits - 1))
    IN  IF e.loc.b >= 2 ^ (e.loc.bits - 1)
        THEN e.d0 - magnitude * (2 ^ e.loc.shift)
        ELSE e.d0 + magnitude * (2 ^ e.loc.shift)

\* the raw seed of channel c (from 0) of the running block, as the file has it
RawSeed(c) ==
    LET at == offsets[current_block + 1]
    IN  IF header.bits_per_sample = 8 THEN input[at + c + 1]
        ELSE input[at + 2 * c + 1] + 256 * input[at + 2 * c + 2]

\* C10: the predictor is a 16-bit signed value: a seed is stored as its
\* two's-complement value, a residual update is reduced modulo 2^16, a 16-bit
\* sample is the predictor modulo 2^16, an 8-bit sample is its low byte, and
\* the next update of the channel starts from the full 16-bit predictor.
C10_Predictor16 ==
    \A k \in 1..Len(Trace) :
        /\ Trace[k].d0 \in -32768..32767
        /\ Trace[k].d1 \in -32768..32767
        /\ Trace[k].loc.b >= 0 => Trace[k].d1 = Wrap16(Unreduced(k))
        /\ Trace[k].sample # <<>>
             => IF header.bits_per_sample = 16
                THEN Trace[k].sample[1] + 256 * Trace[k].sample[2]
                        = Trace[k].d1 % 65536
                ELSE Trace[k].sample = <<Trace[k].d1 % 256>>
        /\ k + header.channel_count <= Len(Trace)
             => Trace[k + header.channel_count].d0 = Trace[k].d1
        /\ (k <= header.channel_count /\ pc \in {"sample", "failed"})
             => Trace[k].d0 = Wrap16(RawSeed(k - 1))

\* in an 8-bit stream an update wrapped, left a predictor outside 0..255, and
\* the next update of the channel started from it
C10_Witness ==
    \E k \in 1..Len(Trace) :
        /\ header.bits_per_sample = 8
        /\ Trace[k].loc.b >= 0
        /\ Unreduced(k) > 32767
        /\ Trace[k].d1 < 0
        /\ k + header.channel_count <= Len(Trace)
        /\ Trace[k + header.channel_count].loc.b >= 0
        /\ Trace[k + header.channel_count].d1 # Trace[k].d1
        /\ Trace[k + header.channel_count].sample # <<>>

====
